---- MODULE Spec2Model ----
(***************************************************************************)
(* A model of videoio: the depth (uint16) channel codec of                 *)
(* videoio/video_uint16.py and the frame streams of videoio/video_rgb.py   *)
(* and videoio/video_uint16.py, which drive an ffmpeg process over a pipe. *)
(*                                                                         *)
(* Three specifications:                                                   *)
(*   SpecCodec  the codec as a pure function over every 16-bit sample;     *)
(*   SpecProbe  read_video_params over the streams ffprobe may report;     *)
(*   Spec       the writer, reader and bulk sessions, the ffmpeg processes *)
(*              they spawn and the file that links a writer to a reader.   *)
(*                                                                         *)
(* Rationals (frame rates, seek times) are pairs <<numerator, denominator>>*)
(* and floating point rounding of the seek time is not modelled.           *)
(***************************************************************************)
EXTENDS Integers, Sequences, FiniteSets, TLC

VARIABLES
    sample,     \* SpecCodec: the 16-bit sample under test
    triple,     \* SpecCodec: the byte triple (plane 0, plane 1, plane 2) of the sample
    decoded,    \* SpecCodec: the sample decoded from the triple
    cstep,      \* SpecCodec: "in" -> "enc" -> "dec", "in" -> "enc_save" | "enc8" | "enc8_save",
                \* "in" -> "raw_dec" -> "raw_enc"
    wr,         \* the writer object (VideoWriter or Uint16Writer)
    rd,         \* the reader object (VideoReader or Uint16Reader)
    bulk,       \* the running call of videosave, uint16save, videoread or uint16read
    procs,      \* every ffmpeg process spawned so far, in spawn order
    file,       \* the video file the encoder left at the output path
    written,    \* the frames the write calls accepted, in order
    yielded,    \* the frames the reader returned since the last __iter__
    ret,        \* the last call: its name, the exception it raised, the bytes it passed to stdin
    stream_params, \* SpecProbe: the video stream entry ffprobe reports
    probed      \* SpecProbe: <<>>, then the one result of read_video_params

codecVars == <<sample, triple, decoded, cstep>>
streamVars == <<wr, rd, bulk, procs, file, written, yielded, ret>>
probeVars == <<stream_params, probed>>
vars ==
    <<sample, triple, decoded, cstep, wr, rd, bulk, procs, file, written, yielded, ret,
      stream_params, probed>>

-----------------------------------------------------------------------------
(* Bounds of the model *)

MaxWrites == 2      \* frames accepted per writer session / frames per bulk array
MaxStart == 2       \* start_frame ranges over 0..MaxStart
MaxIters == 2       \* __iter__ calls per reader
MaxSide == 3        \* SpecProbe: width and height of a probed stream range over 1..MaxSide

(* Program constants *)

MaxSample == 65535  \* the largest np.uint16
ByteRange == 256    \* data / 256, data % 256
MaxByte == 255      \* 255 - lower_part

None == "None"       \* an absent string: no class, no exception, no call
NoFps == <<>>        \* fps=None, output_fps=None
NoRes == <<>>        \* no resolution attribute
NoSeek == <<>>       \* no ss option
NoFrame == [shape |-> <<>>, dtype |-> None, px |-> <<>>]
NoFile == [kind |-> None, resolution |-> <<0, 0>>, fps |-> <<>>, frames |-> <<>>]

-----------------------------------------------------------------------------
(* Sequence helpers *)

Take(s, n) == SubSeq(s, 1, IF n < Len(s) THEN n ELSE Len(s))
Drop(s, n) == SubSeq(s, n + 1, Len(s))
Max(a, b) == IF a >= b THEN a ELSE b

RECURSIVE Flatten(_)
Flatten(ss) == IF ss = <<>> THEN <<>> ELSE Head(ss) \o Flatten(Tail(ss))

-----------------------------------------------------------------------------
(* The depth channel codec: Uint16Writer.write / uint16save encode,        *)
(* Uint16Reader.__next__ / uint16read decode.                              *)

\* upper_part = (data / 256).astype(np.uint8)
UpperPart(s) == (s \div ByteRange) % ByteRange

\* lower_part = (data % 256).astype(np.uint8)
LowerPart(s) == s % ByteRange

\* the mutant of LowerCoding: the low byte of every sample is kept as it is
LowerCodingPlain(s) == LowerPart(s)

\* lower_coding[upper_isodd] = 255 - lower_coding[upper_isodd]
LowerCoding(s) ==
    IF UpperPart(s) % 2 = 1 THEN (MaxByte - LowerPart(s)) % ByteRange ELSE LowerPart(s)

\* the mutant of EncodeSample: the low byte is stored as it is, a sawtooth
EncodeSampleSawtooth(s, dtype) ==
    IF dtype = "uint16" THEN <<LowerPart(s), 0, UpperPart(s)>> ELSE <<s % ByteRange, 0, 0>>

\* np.stack([lower_coding, zeros, upper_part]) for uint16, np.stack([data, zeros, zeros]) for uint8
EncodeSample(s, dtype) ==
    IF dtype = "uint16" THEN <<LowerCoding(s), 0, UpperPart(s)>> ELSE <<s % ByteRange, 0, 0>>

\* the mutant of SaveEncodeSample: the planes of the line commented out in uint16save,
\* np.stack([data % 256, data / 256, zeros])
SaveEncodeSampleOldPlanes(s, dtype) ==
    IF dtype = "uint16" THEN <<LowerPart(s), UpperPart(s), 0>> ELSE <<s % ByteRange, 0, 0>>

\* uint16save: upper_part, lower_part and lower_coding of the whole array, stacked as
\* np.stack([lower_coding, zeros, upper_part], axis=1), or np.stack([data, zeros, zeros],
\* axis=1) for uint8
SaveEncodeSample(s, dtype) ==
    IF dtype = "uint16"
    THEN LET upper_part == (s \div ByteRange) % ByteRange
             lower_part == s % ByteRange
             upper_isodd == upper_part % 2 = 1
         IN  <<IF upper_isodd THEN (MaxByte - lower_part) % ByteRange ELSE lower_part,
               0, upper_part>>
    ELSE <<s % ByteRange, 0, 0>>

\* the mutant of DecodeLower: the low byte is never reflected back
DecodeLowerNoFold(b0, b2) == b0

\* lower_part[upper_isodd] = 255 - lower_part[upper_isodd]
DecodeLower(b0, b2) ==
    IF b2 % 2 = 1 THEN (MaxByte - b0) % ByteRange ELSE b0

\* frame = lower_part.astype(np.uint16) + upper_part.astype(np.uint16) * 256
DecodeTriple(t) ==
    (DecodeLower(t[1], t[3]) + t[3] * ByteRange) % (MaxSample + 1)

\* the mutant of PackFrame: the triples are stacked along the last axis, pixel by pixel
PackFrameInterleaved(px, dtype) ==
    Flatten([i \in 1..Len(px) |-> EncodeSample(px[i], dtype)])

\* the three planes of a frame of samples, as frame.tobytes() lays them out
PackFrame(px, dtype) ==
    [i \in 1..Len(px) |-> EncodeSample(px[i], dtype)[1]]
        \o [i \in 1..Len(px) |-> EncodeSample(px[i], dtype)[2]]
        \o [i \in 1..Len(px) |-> EncodeSample(px[i], dtype)[3]]

\* the three planes of frame i of the stacked array of uint16save, as frame.tobytes()
\* lays them out
SavePackFrame(px, dtype) ==
    [i \in 1..Len(px) |-> SaveEncodeSample(px[i], dtype)[1]]
        \o [i \in 1..Len(px) |-> SaveEncodeSample(px[i], dtype)[2]]
        \o [i \in 1..Len(px) |-> SaveEncodeSample(px[i], dtype)[3]]

\* np.frombuffer(in_bytes).reshape(3, h, w) and the decode of planes 0 and 2
UnpackFrame(bytes, n) ==
    [i \in 1..n |-> DecodeTriple(<<bytes[i], bytes[n + i], bytes[2 * n + i]>>)]

-----------------------------------------------------------------------------
(* Inputs of the stream model *)

\* H264_PRESETS
H264_PRESETS ==
    {"ultrafast", "superfast", "veryfast", "faster", "fast", "medium", "slow", "veryslow"}

Presets == {"slow", "bogus"}            \* a supported and an unsupported preset
Resolutions == {<<2, 1>>}               \* (width, height) given to a writer
FpsChoices == {NoFps, <<30, 1>>}         \* the fps argument of a writer
DefaultFps == <<25, 1>>                 \* what ffmpeg assumes for raw input without framerate
FloatDtypes == {"float16", "float32", "float64"}

\* frames offered to VideoWriter.write: shape is (height, width, channels); the px of
\* a float frame are rationals <<numerator, denominator>>
RgbFrames ==
    { [shape |-> <<1, 2, 3>>, dtype |-> "uint8", px |-> <<10, 20, 30, 40, 50, 60>>],
      [shape |-> <<1, 2, 3>>, dtype |-> "float32",
       px |-> << <<0, 1>>, <<1, 2>>, <<1, 1>>, <<1, 4>>, <<1, 1>>, <<0, 1>> >>],
      [shape |-> <<2, 1, 3>>, dtype |-> "uint8", px |-> <<1, 2, 3, 4, 5, 6>>],
      [shape |-> <<1, 1, 3>>, dtype |-> "uint8", px |-> <<7, 8, 9>>],
      [shape |-> <<1, 2, 4>>, dtype |-> "uint8", px |-> <<1, 2, 3, 4, 5, 6, 7, 8>>],
      [shape |-> <<1, 2>>, dtype |-> "uint8", px |-> <<1, 2>>],
      [shape |-> <<1, 2, 3>>, dtype |-> "int32", px |-> <<1, 2, 3, 4, 5, 6>>] }

\* frames offered to Uint16Writer.write: shape is (height, width)
DepthFrames ==
    { [shape |-> <<1, 2>>, dtype |-> "uint16", px |-> <<65535, 256>>],
      [shape |-> <<1, 2>>, dtype |-> "uint8", px |-> <<7, 200>>],
      [shape |-> <<1, 1>>, dtype |-> "uint16", px |-> <<511>>],
      [shape |-> <<1, 2, 3>>, dtype |-> "uint16", px |-> <<1, 2, 3, 4, 5, 6>>],
      [shape |-> <<1, 2>>, dtype |-> "int32", px |-> <<1, 2>>] }

\* frame i of a file that was on disk before the run, as the decoder returns it
StoredFrame(kind, i) ==
    IF kind = "rgb"
    THEN <<10 * i, 10 * i + 1, 10 * i + 2, 10 * i + 3, 10 * i + 4, 10 * i + 5>>
    ELSE PackFrame(<<257 * i, 65535 - i>>, "uint16")

\* the files a run may find at the path: none, or a video of 0..MaxWrites frames that
\* videoio wrote earlier
ExistingFiles ==
    {NoFile} \cup
    { [kind |-> k, resolution |-> <<2, 1>>, fps |-> <<30, 1>>,
       frames |-> [i \in 1..n |-> StoredFrame(k, i)]] :
      k \in {"rgb", "depth"}, n \in 0..MaxWrites }

\* the arrays offered to a bulk save: 1..MaxWrites frames of one shape and dtype
ArraysOf(frames) ==
    UNION { { a \in [1..n -> frames] :
                \A i \in 1..n : a[i].shape = a[1].shape /\ a[i].dtype = a[1].dtype } :
            n \in 1..MaxWrites }

\* width and height of a frame agree with a resolution (width, height)
MatchesResolution(frame, res) ==
    /\ Len(frame.shape) >= 2
    /\ res[1] = frame.shape[2]
    /\ res[2] = frame.shape[1]

FrameBytes(res) == res[1] * res[2] * 3

-----------------------------------------------------------------------------
(* The ffmpeg process and its pipes (subprocess.Popen, io.BufferedWriter,   *)
(* io.BufferedReader), as the calls of the streams see them.               *)

Running(p) == p.status = "running"
Pending(p) == Len(p.sent) - p.flushed

\* run_async(pipe_stdin=True): an encoder reading raw frames from its stdin
EncoderProc(args) ==
    [role |-> "enc", args |-> args, status |-> "running", joined |-> FALSE, closed |-> FALSE,
     pipe_stdin |-> TRUE, pipe_stdout |-> FALSE,
     sent |-> <<>>, flushed |-> 0, outq |-> <<>>]

\* the mutant of StdinWrite: a closed file takes a write as an open one does
StdinWriteAfterClose(p, bytes) ==
    IF Running(p)
    THEN { [proc |-> [p EXCEPT !.sent = p.sent \o bytes, !.flushed = f],
            exc |-> None, bytes |-> Len(bytes)] :
           f \in {p.flushed} \cup (Len(p.sent)..(Len(p.sent) + Len(bytes))) }
    ELSE { [proc |-> p, exc |-> "BrokenPipeError", bytes |-> 0],
           [proc |-> [p EXCEPT !.sent = p.sent \o bytes], exc |-> None, bytes |-> Len(bytes)] }

\* stdin.write(bytes): the outcomes [proc, exc, bytes]. A closed file raises ValueError.
\* The buffered writer keeps a tail of the data and passes the rest to the pipe; when the
\* process has exited, a write that reaches the pipe raises BrokenPipeError and one that
\* fits the buffer is kept.
StdinWrite(p, bytes) ==
    IF p.closed
    THEN { [proc |-> p, exc |-> "ValueError", bytes |-> 0] }
    ELSE IF Running(p)
    THEN { [proc |-> [p EXCEPT !.sent = p.sent \o bytes, !.flushed = f],
            exc |-> None, bytes |-> Len(bytes)] :
           f \in {p.flushed} \cup (Len(p.sent)..(Len(p.sent) + Len(bytes))) }
    ELSE { [proc |-> p, exc |-> "BrokenPipeError", bytes |-> 0],
           [proc |-> [p EXCEPT !.sent = p.sent \o bytes], exc |-> None, bytes |-> Len(bytes)] }

\* the mutant of StdinClose: closing a closed pipe raises as a write to it does
StdinCloseStrict(p) ==
    IF p.closed
    THEN [proc |-> p, exc |-> "ValueError"]
    ELSE IF Pending(p) > 0 /\ ~Running(p)
    THEN [proc |-> [p EXCEPT !.closed = TRUE], exc |-> "BrokenPipeError"]
    ELSE [proc |-> [p EXCEPT !.closed = TRUE, !.flushed = Len(p.sent)], exc |-> None]

\* stdin.close(): flushes the buffer and closes the pipe; closing twice is a no-op. A flush
\* to a process that has exited raises BrokenPipeError, and the pipe is closed all the same.
StdinClose(p) ==
    IF p.closed
    THEN [proc |-> p, exc |-> None]
    ELSE IF Pending(p) > 0 /\ ~Running(p)
    THEN [proc |-> [p EXCEPT !.closed = TRUE], exc |-> "BrokenPipeError"]
    ELSE [proc |-> [p EXCEPT !.closed = TRUE, !.flushed = Len(p.sent)], exc |-> None]

\* stdout.close(): closing a read pipe never raises; what was not read is lost
StdoutClose(p) == [p EXCEPT !.closed = TRUE, !.outq = <<>>]

\* wait(): the process, its pipe closed, exits with status s unless it had exited already
Wait(p, s) ==
    [p EXCEPT !.status = IF Running(p) THEN s ELSE p.status, !.joined = TRUE]

ExitStatuses == {"exit0", "exit1"}

\* the complete frames among the bytes the encoder received, a trailing partial frame dropped
RECURSIVE Chunks(_, _)
Chunks(bytes, n) ==
    IF Len(bytes) < n THEN <<>> ELSE <<Take(bytes, n)>> \o Chunks(Drop(bytes, n), n)

\* the file an encoder leaves when it exits with status 0 at the end of its input
EncodedFile(p) ==
    [kind |-> p.args.kind, resolution |-> p.args.resolution,
     fps |-> IF p.args.framerate = NoFps THEN DefaultFps ELSE p.args.framerate,
     frames |-> Chunks(p.sent, FrameBytes(p.args.resolution))]

\* the file after wait() on process p, which was q before the call
FileAfterWait(q, p) ==
    IF Running(q) /\ p.status = "exit0" /\ p.role = "enc" THEN EncodedFile(p) ELSE file

-----------------------------------------------------------------------------
(* VideoWriter *)

\* the record of a call: again is set by a close that found its pipe closed and its
\* process joined by an earlier close, and by a next step that found the end of the
\* stream right after a next step that had found it; respect is the
\* respect_original_timestamps argument of a videoread call
Ret(op, exc, n, arg) ==
    [op |-> op, exc |-> exc, bytes |-> n, arg |-> arg, again |-> FALSE, respect |-> FALSE]

\* an earlier close of process i returned: the pipe is closed and the process joined
ClosedBefore(i) == i # 0 /\ procs[i].closed /\ procs[i].joined

NoWriter == [cls |-> None, resolution |-> NoRes, proc |-> 0, scope |-> "none"]
NoBulk ==
    [fn |-> None, pc |-> "none", data |-> <<>>, i |-> 0, proc |-> 0, exc |-> None,
     resolution |-> NoRes, start |-> 0, output_fps |-> NoFps]

\* nothing was called yet and the output path is free
Fresh ==
    /\ wr = NoWriter
    /\ rd.cls = None
    /\ bulk = NoBulk
    /\ file = NoFile
    /\ cstep = "idle"

\* the caller is still writing: it has not turned to reading the file
Writing == rd.cls = None /\ bulk.fn \notin {"videoread", "uint16read"}

\* a writer whose constructor raised before self.ffmpeg_process was set
FailedWriter(cls) == [cls |-> cls, resolution |-> NoRes, proc |-> 0, scope |-> "none"]

WriterArgs(kind, res, preset, fps) ==
    [kind |-> kind, resolution |-> res, preset |-> preset, framerate |-> fps]

\* VideoWriter.__init__; scoped: the writer is the subject of a with statement
VideoWriterInit(res, preset, fps, scoped) ==
    /\ Fresh
    /\ IF preset \notin H264_PRESETS
       THEN /\ wr' = FailedWriter("VideoWriter")
            /\ ret' = Ret("__init__", "AssertionError", 0, NoFrame)
            /\ UNCHANGED procs
       ELSE /\ procs' = Append(procs, EncoderProc(WriterArgs("rgb", res, preset, fps)))
            /\ wr' = [cls |-> "VideoWriter", resolution |-> res, proc |-> Len(procs) + 1,
                      scope |-> IF scoped THEN "in" ELSE "none"]
            /\ ret' = Ret("__init__", None, 0, NoFrame)
    /\ UNCHANGED <<rd, bulk, file, written, yielded>>
    /\ UNCHANGED codecVars
    /\ UNCHANGED probeVars

\* the checks of VideoWriter.write, in the order of the code: the exception or None
VideoWriterCheck(res, frame) ==
    IF Len(frame.shape) < 3 THEN "IndexError"
    ELSE IF frame.shape[3] # 3 THEN "AssertionError"
    ELSE IF ~(res[1] = frame.shape[2] /\ res[2] = frame.shape[1]) THEN "AssertionError"
    ELSE IF frame.dtype \in FloatDtypes THEN None
    ELSE IF frame.dtype # "uint8" THEN "NotImplementedError"
    ELSE None

\* (color_frame * 255).astype(np.uint8) for a float frame; tobytes()
RgbBytes(frame) ==
    IF frame.dtype \in FloatDtypes
    THEN [i \in 1..Len(frame.px) |-> ((frame.px[i][1] * MaxByte) \div frame.px[i][2]) % ByteRange]
    ELSE frame.px

\* the caller may call the writer: it holds the object, and inside a with block no
\* exception is on its way out of the block
WriterCallable ==
    /\ Writing
    /\ wr.cls # None
    /\ wr.proc # 0
    /\ ~(wr.scope = "in" /\ ret.exc # None)

\* the mutant of WriteEffect: the bytes are passed to stdin before the checks raise
WriteEffectLate(exc, frame, bytes) ==
    \E out \in StdinWrite(procs[wr.proc], bytes) :
        /\ procs' = [procs EXCEPT ![wr.proc] = out.proc]
        /\ ret' = Ret("write", IF exc # None THEN exc ELSE out.exc, out.bytes, frame)
        /\ written' = IF exc = None /\ out.exc = None THEN Append(written, frame) ELSE written

\* what a write call does once its checks gave exc and its frame encodes to bytes
WriteEffect(exc, frame, bytes) ==
    IF exc # None
    THEN /\ ret' = Ret("write", exc, 0, frame)
         /\ UNCHANGED <<procs, written>>
    ELSE \E out \in StdinWrite(procs[wr.proc], bytes) :
            /\ procs' = [procs EXCEPT ![wr.proc] = out.proc]
            /\ ret' = Ret("write", out.exc, out.bytes, frame)
            /\ written' = IF out.exc = None THEN Append(written, frame) ELSE written

\* VideoWriter.write
VideoWriterWrite(frame) ==
    /\ wr.cls = "VideoWriter"
    /\ WriterCallable
    /\ Len(written) < MaxWrites
    /\ WriteEffect(VideoWriterCheck(wr.resolution, frame), frame, RgbBytes(frame))
    /\ UNCHANGED <<wr, rd, bulk, file, yielded>>
    /\ UNCHANGED codecVars
    /\ UNCHANGED probeVars

\* stdin.close() and wait() on process i, the exit status s being the encoder's:
\* the exception raised, with procs and file updated
CloseWriterProc(op, i, s) ==
    LET c == StdinClose(procs[i])
        p == IF c.exc = None THEN Wait(c.proc, s) ELSE c.proc
    IN  /\ procs' = [procs EXCEPT ![i] = p]
        /\ file' = FileAfterWait(procs[i], p)
        /\ ret' = [Ret(op, c.exc, 0, NoFrame) EXCEPT !.again = ClosedBefore(i)]

\* VideoWriter.close, VideoWriter.__exit__ (leave: the call is the __exit__ of the with)
VideoWriterClose(leave) ==
    /\ wr.cls = "VideoWriter"
    /\ wr.proc # 0
    /\ IF leave THEN Writing /\ wr.scope = "in" ELSE WriterCallable
    /\ \E s \in ExitStatuses :
          CloseWriterProc(IF leave THEN "__exit__" ELSE "close", wr.proc, s)
    /\ wr' = [wr EXCEPT !.scope = IF leave THEN "left" ELSE wr.scope]
    /\ UNCHANGED <<rd, bulk, written, yielded>>
    /\ UNCHANGED codecVars
    /\ UNCHANGED probeVars

-----------------------------------------------------------------------------
(* Uint16Writer *)

\* Uint16Writer.__init__
Uint16WriterInit(res, preset, fps, scoped) ==
    /\ Fresh
    /\ IF preset \notin H264_PRESETS
       THEN /\ wr' = FailedWriter("Uint16Writer")
            /\ ret' = Ret("__init__", "AssertionError", 0, NoFrame)
            /\ UNCHANGED procs
       ELSE /\ procs' = Append(procs, EncoderProc(WriterArgs("depth", res, preset, fps)))
            /\ wr' = [cls |-> "Uint16Writer", resolution |-> res, proc |-> Len(procs) + 1,
                      scope |-> IF scoped THEN "in" ELSE "none"]
            /\ ret' = Ret("__init__", None, 0, NoFrame)
    /\ UNCHANGED <<rd, bulk, file, written, yielded>>
    /\ UNCHANGED codecVars
    /\ UNCHANGED probeVars

\* the checks of Uint16Writer.write: the exception or None
Uint16WriterCheck(frame) ==
    IF Len(frame.shape) # 2 THEN "AssertionError"
    ELSE IF frame.dtype \notin {"uint16", "uint8"} THEN "AssertionError"
    ELSE None

\* Uint16Writer.write
Uint16WriterWrite(frame) ==
    /\ wr.cls = "Uint16Writer"
    /\ WriterCallable
    /\ Len(written) < MaxWrites
    /\ WriteEffect(Uint16WriterCheck(frame), frame, PackFrame(frame.px, frame.dtype))
    /\ UNCHANGED <<wr, rd, bulk, file, yielded>>
    /\ UNCHANGED codecVars
    /\ UNCHANGED probeVars

\* Uint16Writer.close, Uint16Writer.__exit__
Uint16WriterClose(leave) ==
    /\ wr.cls = "Uint16Writer"
    /\ wr.proc # 0
    /\ IF leave THEN Writing /\ wr.scope = "in" ELSE WriterCallable
    /\ \E s \in ExitStatuses :
          CloseWriterProc(IF leave THEN "__exit__" ELSE "close", wr.proc, s)
    /\ wr' = [wr EXCEPT !.scope = IF leave THEN "left" ELSE wr.scope]
    /\ UNCHANGED <<rd, bulk, written, yielded>>
    /\ UNCHANGED codecVars
    /\ UNCHANGED probeVars

\* the encoder exits on its own (an encoding error, a full disk, a kill) before its
\* input ended, leaving no usable file
EncoderExit(i, s) ==
    /\ procs[i].role = "enc"
    /\ Running(procs[i])
    /\ procs' = [procs EXCEPT ![i].status = s]
    /\ UNCHANGED <<wr, rd, bulk, file, written, yielded, ret>>
    /\ UNCHANGED codecVars
    /\ UNCHANGED probeVars

-----------------------------------------------------------------------------
(* videosave and uint16save *)

\* the checks videosave makes before it spawns ffmpeg: the exception or None
VideosaveCheck(images, preset) ==
    IF Len(images[1].shape) < 3 THEN "IndexError"
    ELSE IF images[1].shape[3] # 3 THEN "AssertionError"
    ELSE IF preset \notin H264_PRESETS THEN "AssertionError"
    ELSE None

\* the checks uint16save makes before it spawns ffmpeg: the exception or None
Uint16saveCheck(data, preset) ==
    IF Len(data[1].shape) # 2 THEN "AssertionError"
    ELSE IF data[1].dtype \notin {"uint16", "uint8"} THEN "AssertionError"
    ELSE IF preset \notin H264_PRESETS THEN "AssertionError"
    ELSE None

\* a bulk save that raised before its try block
BulkRaised(fn, exc) == [NoBulk EXCEPT !.fn = fn, !.pc = "raised", !.exc = exc]

\* a bulk save inside its try block, about to write frame 1 of data
BulkSaving(fn, data, proc) ==
    [NoBulk EXCEPT !.fn = fn, !.pc = "loop", !.data = data, !.i = 1, !.proc = proc]

\* videosave up to run_async
VideosaveCall(images, preset, fps) ==
    /\ Fresh
    /\ LET exc == VideosaveCheck(images, preset)
           res == <<images[1].shape[2], images[1].shape[1]>>
       IN  IF exc # None
           THEN /\ bulk' = BulkRaised("videosave", exc)
                /\ ret' = Ret("videosave", exc, 0, NoFrame)
                /\ UNCHANGED procs
           ELSE /\ procs' = Append(procs, EncoderProc(WriterArgs("rgb", res, preset, fps)))
                /\ bulk' = BulkSaving("videosave", images, Len(procs) + 1)
                /\ ret' = Ret("videosave", None, 0, NoFrame)
    /\ UNCHANGED <<wr, rd, file, written, yielded>>
    /\ UNCHANGED codecVars
    /\ UNCHANGED probeVars

\* the dtype check inside the loop of videosave: the exception or None
VideosaveFrameCheck(frame) ==
    IF frame.dtype \in FloatDtypes THEN None
    ELSE IF frame.dtype # "uint8" THEN "NotImplementedError"
    ELSE None

\* one pass of a save loop over frame bulk.i, whose check gave exc and which encodes to
\* bytes: an exception leaves the loop for the finally block, as does the last frame
SaveLoopEffect(exc, frame, bytes) ==
    IF exc # None
    THEN /\ bulk' = [bulk EXCEPT !.pc = "finally", !.exc = exc]
         /\ ret' = Ret(bulk.fn, exc, 0, frame)
         /\ UNCHANGED <<procs, written>>
    ELSE \E out \in StdinWrite(procs[bulk.proc], bytes) :
            /\ procs' = [procs EXCEPT ![bulk.proc] = out.proc]
            /\ ret' = Ret(bulk.fn, out.exc, out.bytes, frame)
            /\ written' = IF out.exc = None THEN Append(written, frame) ELSE written
            /\ bulk' = [bulk EXCEPT
                          !.pc = IF out.exc # None \/ bulk.i = Len(bulk.data)
                                 THEN "finally" ELSE "loop",
                          !.i = bulk.i + 1,
                          !.exc = out.exc]

\* the body of `for color_frame in images` in videosave
VideosaveLoop ==
    /\ bulk.fn = "videosave"
    /\ bulk.pc = "loop"
    /\ LET frame == bulk.data[bulk.i]
       IN  SaveLoopEffect(VideosaveFrameCheck(frame), frame, RgbBytes(frame))
    /\ UNCHANGED <<wr, rd, file, yielded>>
    /\ UNCHANGED codecVars
    /\ UNCHANGED probeVars

\* a finally block of a save: stdin.close() and wait(); an exception of the close
\* replaces the one on its way out, and wait() is skipped
SaveFinally(s) ==
    LET c == StdinClose(procs[bulk.proc])
        p == IF c.exc = None THEN Wait(c.proc, s) ELSE c.proc
        exc == IF c.exc # None THEN c.exc ELSE bulk.exc
    IN  /\ procs' = [procs EXCEPT ![bulk.proc] = p]
        /\ file' = FileAfterWait(procs[bulk.proc], p)
        /\ bulk' = [bulk EXCEPT !.pc = IF exc = None THEN "done" ELSE "raised", !.exc = exc]
        /\ ret' = Ret(bulk.fn, exc, 0, NoFrame)

\* the finally block of videosave
VideosaveFinally ==
    /\ bulk.fn = "videosave"
    /\ bulk.pc = "finally"
    /\ \E s \in ExitStatuses : SaveFinally(s)
    /\ UNCHANGED <<wr, rd, written, yielded>>
    /\ UNCHANGED codecVars
    /\ UNCHANGED probeVars

\* uint16save up to run_async
Uint16saveCall(data, preset, fps) ==
    /\ Fresh
    /\ LET exc == Uint16saveCheck(data, preset)
       IN  IF exc # None
           THEN /\ bulk' = BulkRaised("uint16save", exc)
                /\ ret' = Ret("uint16save", exc, 0, NoFrame)
                /\ UNCHANGED procs
           ELSE /\ procs' = Append(procs, EncoderProc(
                                WriterArgs("depth", <<data[1].shape[2], data[1].shape[1]>>,
                                           preset, fps)))
                /\ bulk' = BulkSaving("uint16save", data, Len(procs) + 1)
                /\ ret' = Ret("uint16save", None, 0, NoFrame)
    /\ UNCHANGED <<wr, rd, file, written, yielded>>
    /\ UNCHANGED codecVars
    /\ UNCHANGED probeVars

\* the body of `for frame in data` in uint16save
Uint16saveLoop ==
    /\ bulk.fn = "uint16save"
    /\ bulk.pc = "loop"
    /\ LET frame == bulk.data[bulk.i]
       IN  SaveLoopEffect(None, frame, SavePackFrame(frame.px, frame.dtype))
    /\ UNCHANGED <<wr, rd, file, yielded>>
    /\ UNCHANGED codecVars
    /\ UNCHANGED probeVars

\* the finally block of uint16save
Uint16saveFinally ==
    /\ bulk.fn = "uint16save"
    /\ bulk.pc = "finally"
    /\ \E s \in ExitStatuses : SaveFinally(s)
    /\ UNCHANGED <<wr, rd, written, yielded>>
    /\ UNCHANGED codecVars
    /\ UNCHANGED probeVars

-----------------------------------------------------------------------------
(* read_video_params and ffprobe *)

\* what ffprobe reports for the video stream of a file written by an encoder above;
\* counts: the container records the number of frames (nb_frames)
Probe(f, counts) ==
    [width |-> f.resolution[1], height |-> f.resolution[2], avg_frame_rate |-> f.fps,
     hasFrames |-> counts, nb_frames |-> Len(f.frames), hasRotate |-> FALSE, rotate |-> 0]

\* the mutant of ReadVideoParams: the test rotation % 90 == 0 is left out
ReadVideoParamsAnyAngle(st) ==
    LET swap == st.hasRotate /\ st.rotate % 180 # 0
    IN  [width |-> IF swap THEN st.height ELSE st.width,
         height |-> IF swap THEN st.width ELSE st.height,
         fps |-> st.avg_frame_rate,
         hasLength |-> st.hasFrames,
         length |-> IF st.hasFrames THEN st.nb_frames ELSE 0]

\* read_video_params: fps is avg_frame_rate as a number, length is there when nb_frames is,
\* width and height are exchanged for a rotation by an odd multiple of 90 degrees
ReadVideoParams(st) ==
    LET swap == st.hasRotate /\ st.rotate % 90 = 0 /\ st.rotate % 180 # 0
    IN  [width |-> IF swap THEN st.height ELSE st.width,
         height |-> IF swap THEN st.width ELSE st.height,
         fps |-> st.avg_frame_rate,
         hasLength |-> st.hasFrames,
         length |-> IF st.hasFrames THEN st.nb_frames ELSE 0]

\* the rotate tags a stream may carry, in degrees
Rotations == {0 - 450, 0 - 270, 0 - 180, 0 - 90, 0 - 45, 0, 45, 90, 180, 270, 360, 450}

\* the stream entries ffprobe may report: with or without a rotate tag and nb_frames
ProbedStreams ==
    { [width |-> w, height |-> h, avg_frame_rate |-> <<30, 1>>,
       hasFrames |-> counts, nb_frames |-> IF counts THEN 2 ELSE 0,
       hasRotate |-> tagged, rotate |-> IF tagged THEN r ELSE 0] :
      w \in 1..MaxSide, h \in 1..MaxSide, counts \in BOOLEAN, tagged \in BOOLEAN,
      r \in Rotations }

\* no call of read_video_params is under test
ProbeIdle == stream_params = Probe(NoFile, FALSE) /\ probed = <<>>

-----------------------------------------------------------------------------
(* The decoder process *)

\* ceil(a / b) for a >= 0, b > 0
CeilDiv(a, b) == (a + b - 1) \div b

\* the index (from 0) of the first frame of a stream of frame rate fps whose
\* timestamp i / fps is not before the seek time ss
SeekIndex(ss, fps) ==
    IF ss = NoSeek THEN 0 ELSE CeilDiv(ss[1] * fps[1], ss[2] * fps[2])

\* the fps filter: output frame j, shown at j / ofps, is the input frame shown then
Resample(frames, ifps, ofps) ==
    LET n == CeilDiv(Len(frames) * ofps[1] * ifps[2], ofps[2] * ifps[1])
    IN  [j \in 1..n |-> frames[((j - 1) * ifps[1] * ofps[2]) \div (ifps[2] * ofps[1]) + 1]]

\* the frames ffmpeg decodes from file f under the options args
DecodedFrames(f, args) ==
    LET from == Drop(f.frames, SeekIndex(args.ss, f.fps))
    IN  IF args.fps = NoFps THEN from ELSE Resample(from, f.fps, args.fps)

\* the mutant of DecoderProc: run_async(pipe_stdin=True, pipe_stdout=True)
DecoderProcBothPipes(f, args) ==
    [role |-> "dec", args |-> args, status |-> "running", joined |-> FALSE, closed |-> FALSE,
     pipe_stdin |-> TRUE, pipe_stdout |-> TRUE,
     sent |-> <<>>, flushed |-> 0, outq |-> Flatten(DecodedFrames(f, args))]

\* run_async(pipe_stdout=True): a decoder writing raw frames to its stdout
DecoderProc(f, args) ==
    [role |-> "dec", args |-> args, status |-> "running", joined |-> FALSE, closed |-> FALSE,
     pipe_stdin |-> FALSE, pipe_stdout |-> TRUE,
     sent |-> <<>>, flushed |-> 0, outq |-> Flatten(DecodedFrames(f, args))]

\* stdout.read(n): up to n bytes, fewer only at the end of the stream
StdoutRead(p, n) == Take(p.outq, n)

\* the decoder the caller reads from exits on its own: with status 0 once it has
\* written everything, or with an error after the first k bytes of what was left,
\* which are whole frames or whole frames and the first byte of the next
DecoderExit(i, s, k) ==
    /\ i \in {rd.proc, bulk.proc}
    /\ procs[i].role = "dec"
    /\ Running(procs[i])
    /\ ~procs[i].closed
    /\ k <= Len(procs[i].outq)
    /\ k % FrameBytes(file.resolution) \in {0, 1}
    /\ s = "exit0" => k = Len(procs[i].outq)
    /\ procs' = [procs EXCEPT ![i].status = s, ![i].outq = Take(procs[i].outq, k)]
    /\ UNCHANGED <<wr, rd, bulk, file, written, yielded, ret>>
    /\ UNCHANGED codecVars
    /\ UNCHANGED probeVars

-----------------------------------------------------------------------------
(* VideoReader and Uint16Reader *)

StartFrames == (0 - 1)..MaxStart        \* start_frame; a negative one is rejected
OutFpsChoices == {NoFps, <<15, 1>>}     \* output_fps

\* no encoder is at work on the file: the path can be read
Readable ==
    /\ cstep = "idle"
    /\ \A i \in 1..Len(procs) : ~Running(procs[i])
    /\ bulk.pc \in {"none", "done", "raised"}

\* the file, if there is one, was written by a writer or a bulk save of this run
FromWriter == wr.cls # None \/ bulk.fn \in {"videosave", "uint16save"}

\* the file was written by a depth writer of this run
FromDepthWriter == wr.cls = "Uint16Writer" \/ bulk.fn = "uint16save"

\* a reader whose constructor raised before self.ffmpeg_process was set, and before
\* read_video_params was called (probes counts the calls of the prober)
FailedReader(cls) ==
    [cls |-> cls, ok |-> FALSE, start_frame |-> 0, output_fps |-> NoFps, respect |-> FALSE,
     video_params |-> ReadVideoParams(Probe(NoFile, FALSE)),
     resolution |-> NoRes, proc |-> 0, iters |-> 0, probes |-> 0]

NoReader == FailedReader(None)

\* the exception of the first lines of a reader constructor or bulk read, or None
OpenCheck(start) ==
    IF start < 0 THEN "AssertionError"
    ELSE IF file = NoFile THEN "FileNotFoundError"
    ELSE None

\* (start_frame - 0.5) / fps, as the rational (2 * start_frame - 1) / (2 * fps)
StartFrameTime(start, fps) == <<(2 * start - 1) * fps[2], 2 * fps[1]>>

\* the mutant of RgbSeek: the seek time is always computed from the probed frame rate
RgbSeekProbedFps(start, params, output_fps) ==
    IF start # 0 THEN StartFrameTime(start, params.fps) ELSE NoSeek

\* the ss option of ffmpeg.input in VideoReader.__iter__ and videoread
RgbSeek(start, params, output_fps) ==
    IF start # 0
    THEN IF output_fps = NoFps
         THEN StartFrameTime(start, params.fps)
         ELSE StartFrameTime(start, output_fps)
    ELSE NoSeek

\* the ss option of ffmpeg.input in Uint16Reader.__iter__ and uint16read
DepthSeek(start, params) ==
    IF start # 0 THEN StartFrameTime(start, params.fps) ELSE NoSeek

\* the mutant of RgbReadArgs: the frames are always asked for by index, vsync='0'
RgbReadArgsByIndex(start, params, output_fps, respect) ==
    [ss |-> RgbSeek(start, params, output_fps), fps |-> output_fps,
     vsync0 |-> TRUE, pix_fmt |-> "rgb24", stdin |-> FALSE]

\* the options of the ffmpeg process of VideoReader.__iter__ and videoread
RgbReadArgs(start, params, output_fps, respect) ==
    [ss |-> RgbSeek(start, params, output_fps), fps |-> output_fps,
     vsync0 |-> ~respect, pix_fmt |-> "rgb24", stdin |-> FALSE]

\* the options of the ffmpeg process of Uint16Reader.__iter__ and uint16read
DepthReadArgs(start, params) ==
    [ss |-> DepthSeek(start, params), fps |-> NoFps,
     vsync0 |-> FALSE, pix_fmt |-> "yuv444p", stdin |-> FALSE]

\* the mutant of VideoReaderInit: the constructor spawns the process of __iter__
VideoReaderInitEager(start, output_fps, respect, counts) ==
    /\ Readable
    /\ ~FromWriter
    /\ rd = NoReader
    /\ bulk = NoBulk
    /\ file # NoFile => file.kind = "rgb"
    /\ LET exc == OpenCheck(start)
           params == ReadVideoParams(Probe(file, counts))
           forced == IF output_fps # NoFps THEN TRUE ELSE respect
       IN  IF exc # None
           THEN /\ rd' = FailedReader("VideoReader")
                /\ ret' = Ret("__init__", exc, 0, NoFrame)
                /\ UNCHANGED procs
           ELSE /\ procs' = Append(procs, DecoderProc(file,
                                RgbReadArgs(start, params, output_fps, forced)))
                /\ rd' = [cls |-> "VideoReader", ok |-> TRUE, start_frame |-> start,
                          output_fps |-> output_fps, respect |-> forced,
                          video_params |-> params,
                          resolution |-> <<params.width, params.height>>,
                          proc |-> Len(procs) + 1, iters |-> 0, probes |-> 1]
                /\ ret' = Ret("__init__", None, 0, NoFrame)
    /\ UNCHANGED <<wr, bulk, file, written, yielded>>
    /\ UNCHANGED codecVars
    /\ UNCHANGED probeVars

\* VideoReader.__init__; counts: ffprobe reports nb_frames for the file
VideoReaderInit(start, output_fps, respect, counts) ==
    /\ Readable
    /\ ~FromWriter
    /\ rd = NoReader
    /\ bulk = NoBulk
    /\ file # NoFile => file.kind = "rgb"
    /\ LET exc == OpenCheck(start)
           params == ReadVideoParams(Probe(file, counts))
       IN  IF exc # None
           THEN /\ rd' = FailedReader("VideoReader")
                /\ ret' = Ret("__init__", exc, 0, NoFrame)
           ELSE /\ rd' = [cls |-> "VideoReader", ok |-> TRUE, start_frame |-> start,
                          output_fps |-> output_fps,
                          respect |-> IF output_fps # NoFps THEN TRUE ELSE respect,
                          video_params |-> params,
                          resolution |-> <<params.width, params.height>>,
                          proc |-> 0, iters |-> 0, probes |-> 1]
                /\ ret' = Ret("__init__", None, 0, NoFrame)
    /\ UNCHANGED <<wr, bulk, procs, file, written, yielded>>
    /\ UNCHANGED codecVars
    /\ UNCHANGED probeVars

\* Uint16Reader.__init__
Uint16ReaderInit(start, counts) ==
    /\ Readable
    /\ IF FromWriter THEN FromDepthWriter /\ file # NoFile /\ start = 0 ELSE bulk = NoBulk
    /\ rd = NoReader
    /\ file # NoFile => file.kind = "depth"
    /\ LET exc == OpenCheck(start)
           params == ReadVideoParams(Probe(file, counts))
       IN  IF exc # None
           THEN /\ rd' = FailedReader("Uint16Reader")
                /\ ret' = Ret("__init__", exc, 0, NoFrame)
           ELSE /\ rd' = [cls |-> "Uint16Reader", ok |-> TRUE, start_frame |-> start,
                          output_fps |-> NoFps, respect |-> FALSE,
                          video_params |-> params,
                          resolution |-> <<params.width, params.height>>,
                          proc |-> 0, iters |-> 0, probes |-> 1]
                /\ ret' = Ret("__init__", None, 0, NoFrame)
    /\ UNCHANGED <<wr, bulk, procs, file, written, yielded>>
    /\ UNCHANGED codecVars
    /\ UNCHANGED probeVars

\* self.ffmpeg_process = ...: the process the attribute named before is no longer
\* referenced by the reader, and what it has not yet written can no longer be read
Dropped(i) == IF i = 0 THEN procs ELSE [procs EXCEPT ![i].outq = <<>>]

\* VideoReader.__iter__
VideoReaderIter ==
    /\ rd.cls = "VideoReader"
    /\ rd.ok
    /\ rd.iters < MaxIters
    /\ procs' = Append(Dropped(rd.proc), DecoderProc(file,
                    RgbReadArgs(rd.start_frame, rd.video_params, rd.output_fps, rd.respect)))
    /\ rd' = [rd EXCEPT !.proc = Len(procs) + 1, !.iters = rd.iters + 1]
    /\ yielded' = <<>>
    /\ ret' = Ret("__iter__", None, 0, NoFrame)
    /\ UNCHANGED <<wr, bulk, file, written>>
    /\ UNCHANGED codecVars
    /\ UNCHANGED probeVars

\* Uint16Reader.__iter__
Uint16ReaderIter ==
    /\ rd.cls = "Uint16Reader"
    /\ rd.ok
    /\ rd.iters < MaxIters
    /\ procs' = Append(Dropped(rd.proc),
                       DecoderProc(file, DepthReadArgs(rd.start_frame, rd.video_params)))
    /\ rd' = [rd EXCEPT !.proc = Len(procs) + 1, !.iters = rd.iters + 1]
    /\ yielded' = <<>>
    /\ ret' = Ret("__iter__", None, 0, NoFrame)
    /\ UNCHANGED <<wr, bulk, file, written>>
    /\ UNCHANGED codecVars
    /\ UNCHANGED probeVars

\* VideoReader.__len__
VideoReaderLen(r) ==
    IF r.video_params.hasLength THEN Max(r.video_params.length - r.start_frame, 0) ELSE 0

\* Uint16Reader.__len__
Uint16ReaderLen(r) ==
    IF r.video_params.hasLength THEN r.video_params.length ELSE 0

\* len(reader)
ReaderLen(r) == IF r.cls = "VideoReader" THEN VideoReaderLen(r) ELSE Uint16ReaderLen(r)

\* np.frombuffer(in_bytes, np.uint8).reshape(h, w, 3)
RgbFrameOf(bytes, res) == [shape |-> <<res[2], res[1], 3>>, dtype |-> "uint8", px |-> bytes]

\* np.frombuffer(in_bytes, np.uint8).reshape(3, h, w) and the decode of its planes
DepthFrameOf(bytes, res) ==
    [shape |-> <<res[2], res[1]>>, dtype |-> "uint16", px |-> UnpackFrame(bytes, res[1] * res[2])]

\* the mutant of ReadOutcome: a read that is not a whole frame ends the iteration
ReadOutcomeLenient(in_bytes, n) ==
    IF Len(in_bytes) < n THEN "StopIteration" ELSE None

\* the mutant of ReadOutcome: the end of the stream is reported once, and a read of
\* nothing after that is an error
ReadOutcomeOnce(in_bytes, n) ==
    IF in_bytes = <<>>
    THEN IF ret.exc = "StopIteration" THEN "ValueError" ELSE "StopIteration"
    ELSE IF Len(in_bytes) < n THEN "ValueError"
    ELSE None

\* what a read of in_bytes, n bytes asked for, makes of a next step: StopIteration for
\* no bytes, the ValueError of reshape for too few, None for a frame
ReadOutcome(in_bytes, n) ==
    IF in_bytes = <<>> THEN "StopIteration"
    ELSE IF Len(in_bytes) < n THEN "ValueError"
    ELSE None

\* a next step on process i of a reader of resolution res: without a process
\* (ffmpeg_process is None) AttributeError, on a closed stdout ValueError
NextEffect(op, i, res, depth) ==
    IF i = 0
    THEN /\ ret' = Ret(op, "AttributeError", 0, NoFrame)
         /\ UNCHANGED <<procs, yielded>>
    ELSE IF procs[i].closed
    THEN /\ ret' = Ret(op, "ValueError", 0, NoFrame)
         /\ UNCHANGED <<procs, yielded>>
    ELSE LET n == FrameBytes(res)
             in_bytes == StdoutRead(procs[i], n)
             exc == ReadOutcome(in_bytes, n)
             frame == IF depth THEN DepthFrameOf(in_bytes, res) ELSE RgbFrameOf(in_bytes, res)
         IN  /\ procs' = [procs EXCEPT ![i].outq = Drop(procs[i].outq, Len(in_bytes))]
             /\ ret' = [Ret(op, exc, Len(in_bytes), IF exc = None THEN frame ELSE NoFrame)
                          EXCEPT !.again = exc = "StopIteration" /\ ret.op = op
                                               /\ ret.exc = "StopIteration"]
             /\ yielded' = IF exc = None THEN Append(yielded, frame) ELSE yielded

\* VideoReader.__next__
VideoReaderNext ==
    /\ rd.cls = "VideoReader"
    /\ rd.ok
    /\ NextEffect("__next__", rd.proc, rd.resolution, FALSE)
    /\ UNCHANGED <<wr, rd, bulk, file, written>>
    /\ UNCHANGED codecVars
    /\ UNCHANGED probeVars

\* Uint16Reader.__next__
Uint16ReaderNext ==
    /\ rd.cls = "Uint16Reader"
    /\ rd.ok
    /\ NextEffect("__next__", rd.proc, rd.resolution, TRUE)
    /\ UNCHANGED <<wr, rd, bulk, file, written>>
    /\ UNCHANGED codecVars
    /\ UNCHANGED probeVars

\* stdout.close() and wait() on process i, which exits with status s if it still runs
CloseReaderProc(i, s) == [procs EXCEPT ![i] = Wait(StdoutClose(procs[i]), s)]

\* VideoReader.close
VideoReaderClose ==
    /\ rd.cls = "VideoReader"
    /\ rd.ok
    /\ IF rd.proc # 0
       THEN \E s \in ExitStatuses : procs' = CloseReaderProc(rd.proc, s)
       ELSE UNCHANGED procs
    /\ ret' = [Ret("close", None, 0, NoFrame) EXCEPT !.again = ClosedBefore(rd.proc)]
    /\ UNCHANGED <<wr, rd, bulk, file, written, yielded>>
    /\ UNCHANGED codecVars
    /\ UNCHANGED probeVars

\* Uint16Reader.close
Uint16ReaderClose ==
    /\ rd.cls = "Uint16Reader"
    /\ rd.ok
    /\ IF rd.proc # 0
       THEN \E s \in ExitStatuses : procs' = CloseReaderProc(rd.proc, s)
       ELSE UNCHANGED procs
    /\ ret' = [Ret("close", None, 0, NoFrame) EXCEPT !.again = ClosedBefore(rd.proc)]
    /\ UNCHANGED <<wr, rd, bulk, file, written, yielded>>
    /\ UNCHANGED codecVars
    /\ UNCHANGED probeVars

-----------------------------------------------------------------------------
(* videoread and uint16read *)

\* the options of the ffmpeg process of videoread: ss from start_frame, the fps filter,
\* respect_original_timestamps forced by output_fps, vsync='0' without it
VideoreadArgs(start, params, output_fps, respect) ==
    LET start_frame_time ==
            IF output_fps = NoFps
            THEN StartFrameTime(start, params.fps)
            ELSE StartFrameTime(start, output_fps)
        respect_original_timestamps == IF output_fps # NoFps THEN TRUE ELSE respect
    IN  [ss |-> IF start # 0 THEN start_frame_time ELSE NoSeek,
         fps |-> output_fps,
         vsync0 |-> ~respect_original_timestamps,
         pix_fmt |-> "rgb24", stdin |-> FALSE]

\* the options of the ffmpeg process of uint16read
Uint16readArgs(start, params) ==
    [ss |-> IF start # 0 THEN StartFrameTime(start, params.fps) ELSE NoSeek,
     fps |-> NoFps, vsync0 |-> FALSE, pix_fmt |-> "yuv444p", stdin |-> FALSE]

\* a bulk read inside its try block, reading from process proc frames of resolution res
BulkReading(fn, res, proc, start, output_fps) ==
    [NoBulk EXCEPT !.fn = fn, !.pc = "loop", !.proc = proc, !.resolution = res,
                   !.start = start, !.output_fps = output_fps]

\* videoread up to run_async
VideoreadCall(start, output_fps, respect, counts) ==
    /\ Readable
    /\ ~FromWriter
    /\ rd = NoReader
    /\ bulk = NoBulk
    /\ file # NoFile => file.kind = "rgb"
    /\ LET exc == OpenCheck(start)
           params == ReadVideoParams(Probe(file, counts))
       IN  IF exc # None
           THEN /\ bulk' = BulkRaised("videoread", exc)
                /\ ret' = Ret("videoread", exc, 0, NoFrame)
                /\ UNCHANGED procs
           ELSE /\ procs' = Append(procs, DecoderProc(file,
                                VideoreadArgs(start, params, output_fps, respect)))
                /\ bulk' = BulkReading("videoread", <<params.width, params.height>>,
                                       Len(procs) + 1, start, output_fps)
                /\ ret' = [Ret("videoread", None, 0, NoFrame) EXCEPT !.respect = respect]
    /\ yielded' = <<>>
    /\ UNCHANGED <<wr, rd, file, written>>
    /\ UNCHANGED codecVars
    /\ UNCHANGED probeVars

\* uint16read up to run_async
Uint16readCall(start, counts) ==
    /\ Readable
    /\ ~FromWriter
    /\ rd = NoReader
    /\ bulk = NoBulk
    /\ file # NoFile => file.kind = "depth"
    /\ LET exc == OpenCheck(start)
           params == ReadVideoParams(Probe(file, counts))
       IN  IF exc # None
           THEN /\ bulk' = BulkRaised("uint16read", exc)
                /\ ret' = Ret("uint16read", exc, 0, NoFrame)
                /\ UNCHANGED procs
           ELSE /\ procs' = Append(procs, DecoderProc(file, Uint16readArgs(start, params)))
                /\ bulk' = BulkReading("uint16read", <<params.width, params.height>>,
                                       Len(procs) + 1, start, NoFps)
                /\ ret' = Ret("uint16read", None, 0, NoFrame)
    /\ yielded' = <<>>
    /\ UNCHANGED <<wr, rd, file, written>>
    /\ UNCHANGED codecVars
    /\ UNCHANGED probeVars

\* one pass of `while True` in a bulk read: `break` on no bytes, the ValueError of
\* reshape on too few, both leaving for the finally block
ReadLoopEffect(depth) ==
    /\ NextEffect(bulk.fn, bulk.proc, bulk.resolution, depth)
    /\ bulk' = [bulk EXCEPT
                  !.pc = IF ret'.exc = None THEN "loop" ELSE "finally",
                  !.exc = IF ret'.exc = "StopIteration" THEN None ELSE ret'.exc]

\* the body of `while True` in videoread
VideoreadLoop ==
    /\ bulk.fn = "videoread"
    /\ bulk.pc = "loop"
    /\ ReadLoopEffect(FALSE)
    /\ UNCHANGED <<wr, rd, file, written>>
    /\ UNCHANGED codecVars
    /\ UNCHANGED probeVars

\* the body of `while True` in uint16read
Uint16readLoop ==
    /\ bulk.fn = "uint16read"
    /\ bulk.pc = "loop"
    /\ ReadLoopEffect(TRUE)
    /\ UNCHANGED <<wr, rd, file, written>>
    /\ UNCHANGED codecVars
    /\ UNCHANGED probeVars

\* the finally block of a bulk read, stdout.close() and wait(), then np.stack(frames),
\* which raises ValueError for no frames
ReadFinally(s) ==
    LET exc == IF bulk.exc # None THEN bulk.exc
               ELSE IF yielded = <<>> THEN "ValueError" ELSE None
    IN  /\ procs' = CloseReaderProc(bulk.proc, s)
        /\ bulk' = [bulk EXCEPT !.pc = IF exc = None THEN "done" ELSE "raised", !.exc = exc]
        /\ ret' = Ret(bulk.fn, exc, 0, NoFrame)

\* the finally block and the return of videoread
VideoreadFinally ==
    /\ bulk.fn = "videoread"
    /\ bulk.pc = "finally"
    /\ \E s \in ExitStatuses : ReadFinally(s)
    /\ UNCHANGED <<wr, rd, file, written, yielded>>
    /\ UNCHANGED codecVars
    /\ UNCHANGED probeVars

\* the finally block and the return of uint16read
Uint16readFinally ==
    /\ bulk.fn = "uint16read"
    /\ bulk.pc = "finally"
    /\ \E s \in ExitStatuses : ReadFinally(s)
    /\ UNCHANGED <<wr, rd, file, written, yielded>>
    /\ UNCHANGED codecVars
    /\ UNCHANGED probeVars

-----------------------------------------------------------------------------
(* __del__ of an object whose constructor raised: the finalizer runs close() on  *)
(* an object that has no ffmpeg_process attribute. (The finalizer of an object   *)
(* that was constructed is its close, above.)                                    *)

\* VideoWriter.__del__ after a failed __init__: close() finds no attribute by hasattr
VideoWriterDel ==
    /\ wr.cls = "VideoWriter"
    /\ wr.proc = 0
    /\ ret' = Ret("__del__", None, 0, NoFrame)
    /\ UNCHANGED <<wr, rd, bulk, procs, file, written, yielded>>
    /\ UNCHANGED codecVars
    /\ UNCHANGED probeVars

\* Uint16Writer.__del__ after a failed __init__: close() reads self.ffmpeg_process
Uint16WriterDel ==
    /\ wr.cls = "Uint16Writer"
    /\ wr.proc = 0
    /\ ret' = Ret("__del__", "AttributeError", 0, NoFrame)
    /\ UNCHANGED <<wr, rd, bulk, procs, file, written, yielded>>
    /\ UNCHANGED codecVars
    /\ UNCHANGED probeVars

\* VideoReader.__del__ after a failed __init__: close() finds no attribute by hasattr
VideoReaderDel ==
    /\ rd.cls = "VideoReader"
    /\ ~rd.ok
    /\ ret' = Ret("__del__", None, 0, NoFrame)
    /\ UNCHANGED <<wr, rd, bulk, procs, file, written, yielded>>
    /\ UNCHANGED codecVars
    /\ UNCHANGED probeVars

\* Uint16Reader.__del__ after a failed __init__: close() reads self.ffmpeg_process
Uint16ReaderDel ==
    /\ rd.cls = "Uint16Reader"
    /\ ~rd.ok
    /\ ret' = Ret("__del__", "AttributeError", 0, NoFrame)
    /\ UNCHANGED <<wr, rd, bulk, procs, file, written, yielded>>
    /\ UNCHANGED codecVars
    /\ UNCHANGED probeVars

-----------------------------------------------------------------------------
(* SpecCodec *)

StreamIdleOn(f) ==
    /\ wr = NoWriter
    /\ rd = NoReader
    /\ bulk = NoBulk
    /\ procs = <<>>
    /\ file = f
    /\ written = <<>>
    /\ yielded = <<>>
    /\ ret = Ret(None, None, 0, NoFrame)

CodecIdle == sample = 0 /\ triple = <<0, 0, 0>> /\ decoded = 0 /\ cstep = "idle"

StreamIdle == StreamIdleOn(NoFile)

CodecInit ==
    /\ sample \in 0..MaxSample
    /\ triple = <<0, 0, 0>>
    /\ decoded = 0
    /\ cstep = "in"
    /\ StreamIdle
    /\ ProbeIdle

CodecEncode ==
    /\ cstep = "in"
    /\ triple' = EncodeSample(sample, "uint16")
    /\ cstep' = "enc"
    /\ UNCHANGED <<sample, decoded>>
    /\ UNCHANGED streamVars
    /\ UNCHANGED probeVars

CodecDecode ==
    /\ cstep = "enc"
    /\ decoded' = DecodeTriple(triple)
    /\ cstep' = "dec"
    /\ UNCHANGED <<sample, triple>>
    /\ UNCHANGED streamVars
    /\ UNCHANGED probeVars

\* the encode of uint16save for a uint16 array
CodecSaveEncode ==
    /\ cstep = "in"
    /\ triple' = SaveEncodeSample(sample, "uint16")
    /\ cstep' = "enc_save"
    /\ UNCHANGED <<sample, decoded>>
    /\ UNCHANGED streamVars
    /\ UNCHANGED probeVars

\* the encode of Uint16Writer.write for a uint8 frame
CodecEncode8 ==
    /\ cstep = "in"
    /\ sample <= MaxByte
    /\ triple' = EncodeSample(sample, "uint8")
    /\ cstep' = "enc8"
    /\ UNCHANGED <<sample, decoded>>
    /\ UNCHANGED streamVars
    /\ UNCHANGED probeVars

\* the encode of uint16save for a uint8 array
CodecSaveEncode8 ==
    /\ cstep = "in"
    /\ sample <= MaxByte
    /\ triple' = SaveEncodeSample(sample, "uint8")
    /\ cstep' = "enc8_save"
    /\ UNCHANGED <<sample, decoded>>
    /\ UNCHANGED streamVars
    /\ UNCHANGED probeVars

\* the pixel (b0, 0, b2) of a decoded frame that the sample under test stands for:
\* b0 and b2 are its two bytes
RawTriple(s) == <<s % ByteRange, 0, (s \div ByteRange) % ByteRange>>

\* the decode of Uint16Reader.__next__ applied to the pixel (b0, 0, b2)
CodecDecodeRaw ==
    /\ cstep = "in"
    /\ triple' = RawTriple(sample)
    /\ decoded' = DecodeTriple(RawTriple(sample))
    /\ cstep' = "raw_dec"
    /\ UNCHANGED sample
    /\ UNCHANGED streamVars
    /\ UNCHANGED probeVars

\* the encode of Uint16Writer.write applied to the sample that was decoded
CodecReencode ==
    /\ cstep = "raw_dec"
    /\ triple' = EncodeSample(decoded, "uint16")
    /\ cstep' = "raw_enc"
    /\ UNCHANGED <<sample, decoded>>
    /\ UNCHANGED streamVars
    /\ UNCHANGED probeVars

CodecNext ==
    \/ CodecDecodeRaw
    \/ CodecReencode
    \/ CodecEncode
    \/ CodecDecode
    \/ CodecSaveEncode
    \/ CodecEncode8
    \/ CodecSaveEncode8

SpecCodec == CodecInit /\ [][CodecNext]_vars

-----------------------------------------------------------------------------
(* Spec *)

Init == CodecIdle /\ ProbeIdle /\ \E f \in ExistingFiles : StreamIdleOn(f)

Next ==
    \/ \E res \in Resolutions, preset \in Presets, fps \in FpsChoices, scoped \in BOOLEAN :
          VideoWriterInit(res, preset, fps, scoped)
    \/ \E frame \in RgbFrames : VideoWriterWrite(frame)
    \/ \E leave \in BOOLEAN : VideoWriterClose(leave)
    \/ \E res \in Resolutions, preset \in Presets, fps \in FpsChoices, scoped \in BOOLEAN :
          Uint16WriterInit(res, preset, fps, scoped)
    \/ \E frame \in DepthFrames : Uint16WriterWrite(frame)
    \/ \E leave \in BOOLEAN : Uint16WriterClose(leave)
    \/ \E images \in ArraysOf(RgbFrames), preset \in Presets, fps \in FpsChoices :
          VideosaveCall(images, preset, fps)
    \/ VideosaveLoop
    \/ VideosaveFinally
    \/ \E data \in ArraysOf(DepthFrames), preset \in Presets, fps \in FpsChoices :
          Uint16saveCall(data, preset, fps)
    \/ Uint16saveLoop
    \/ Uint16saveFinally
    \/ \E i \in 1..Len(procs), s \in ExitStatuses : EncoderExit(i, s)
    \/ \E start \in StartFrames, output_fps \in OutFpsChoices, respect \in BOOLEAN,
          counts \in BOOLEAN : VideoReaderInit(start, output_fps, respect, counts)
    \/ VideoReaderIter
    \/ VideoReaderNext
    \/ VideoReaderClose
    \/ \E start \in StartFrames, counts \in BOOLEAN : Uint16ReaderInit(start, counts)
    \/ Uint16ReaderIter
    \/ Uint16ReaderNext
    \/ Uint16ReaderClose
    \/ \E start \in StartFrames, output_fps \in OutFpsChoices, respect \in BOOLEAN,
          counts \in BOOLEAN : VideoreadCall(start, output_fps, respect, counts)
    \/ VideoreadLoop
    \/ VideoreadFinally
    \/ \E start \in StartFrames, counts \in BOOLEAN : Uint16readCall(start, counts)
    \/ Uint16readLoop
    \/ Uint16readFinally
    \/ \E i \in 1..Len(procs), s \in ExitStatuses :
          \E k \in 0..Len(procs[i].outq) : DecoderExit(i, s, k)
    \/ VideoWriterDel
    \/ Uint16WriterDel
    \/ VideoReaderDel
    \/ Uint16ReaderDel

Spec == Init /\ [][Next]_vars

-----------------------------------------------------------------------------
(* SpecProbe *)

ProbeInit ==
    /\ stream_params \in ProbedStreams
    /\ probed = <<>>
    /\ CodecIdle
    /\ StreamIdle

\* read_video_params on the stream ffprobe reported
ProbeRead ==
    /\ probed = <<>>
    /\ stream_params # Probe(NoFile, FALSE)
    /\ probed' = <<ReadVideoParams(stream_params)>>
    /\ UNCHANGED stream_params
    /\ UNCHANGED codecVars
    /\ UNCHANGED streamVars

ProbeNext == ProbeRead

SpecProbe == ProbeInit /\ [][ProbeNext]_vars

-----------------------------------------------------------------------------
(* The claims *)

\* C1: for every 16-bit sample s, decoding the byte triple that encoding s
\* produced yields exactly s.
C1_RoundTrip == cstep = "dec" => decoded = sample

\* an odd high byte with a low byte that the reflection changes has been decoded
C1_Witness == cstep = "dec" /\ sample = MaxSample /\ triple = <<0, 0, MaxByte>>

\* a depth reader is iterating the file a depth writer of this run wrote
RoundTrip == FromDepthWriter /\ rd.cls = "Uint16Reader" /\ rd.ok /\ rd.proc # 0

\* every frame written has the width and height the writer declared
WellShaped ==
    \A i \in 1..Len(written) : MatchesResolution(written[i], procs[1].args.resolution)

\* frame for frame the same shape and the same sample values
SameFrames(a, b) ==
    /\ Len(a) = Len(b)
    /\ \A i \in 1..Len(a) : a[i].shape = b[i].shape /\ a[i].px = b[i].px

\* the last next step found the end of a stream whose decoder did not fail
Exhausted ==
    /\ ret.op = "__next__"
    /\ ret.exc = "StopIteration"
    /\ procs[rd.proc].status # "exit1"

\* C2: when frames of the declared resolution were written in order through a depth
\* writer that was closed, a depth reader opened on the file with start_frame = 0
\* yields the frames in the order written, each equal to the frame written, and by
\* the end of the stream as many as were written.
C2_OrderPreserved ==
    RoundTrip /\ WellShaped =>
        /\ Len(yielded) <= Len(written)
        /\ SameFrames(yielded, Take(written, Len(yielded)))
        /\ Exhausted => Len(yielded) = Len(written)

\* two different frames, one of 16-bit and one of 8-bit samples, were read back to the end
C2_Witness ==
    /\ RoundTrip
    /\ WellShaped
    /\ Exhausted
    /\ Len(yielded) = 2
    /\ yielded[1].px = <<65535, 256>>
    /\ yielded[2].px = <<7, 200>>

\* C3: every reader opened with start_frame = k on a source whose prober reports
\* the frame count N reports the length max(N - k, 0).
C3_Length ==
    rd.ok /\ rd.video_params.hasLength =>
        ReaderLen(rd) = Max(Len(file.frames) - rd.start_frame, 0)

\* C4: a write of a frame whose width or height differs from the resolution declared
\* at construction raises and passes no byte to the process.
C4_ShapeRejected ==
    ret.op = "write" /\ Len(ret.arg.shape) >= 2 /\ ~MatchesResolution(ret.arg, wr.resolution)
        => ret.exc # None /\ ret.bytes = 0

\* the last call was a read step of a reader or of a bulk read
ReadStep == ret.op \in {"__next__", "videoread", "uint16read"}

\* the last read step received some bytes, but fewer than a frame
ShortRead == ReadStep /\ 0 < ret.bytes /\ ret.bytes < FrameBytes(file.resolution)

WriterCloseStep ==
    \/ VideoWriterClose(FALSE)
    \/ VideoWriterClose(TRUE)
    \/ Uint16WriterClose(FALSE)
    \/ Uint16WriterClose(TRUE)

\* a step is a close of the reader
ReaderCloseStep == VideoReaderClose \/ Uint16ReaderClose

\* C6: a close of a writer or a reader after an earlier close of it has returned
\* (and any close of a reader that was never iterated) raises nothing and changes
\* nothing of the session: not the pipe, the process, the file or the frames.
C6_IdempotentClose ==
    [][ /\ WriterCloseStep /\ ClosedBefore(wr.proc) =>
            /\ ret'.exc = None
            /\ wr'.proc = wr.proc
            /\ UNCHANGED <<procs, file, written, yielded, rd, bulk>>
        /\ ReaderCloseStep /\ (ClosedBefore(rd.proc) \/ rd.proc = 0) =>
            /\ ret'.exc = None
            /\ UNCHANGED <<procs, file, written, yielded, rd, wr, bulk>> ]_vars

\* a depth writer that accepted a frame was closed a second time
C6_Witness ==
    /\ ret.op = "close"
    /\ ret.again
    /\ wr.cls = "Uint16Writer"
    /\ written # <<>>
    /\ rd.cls = None

\* the frame rate a seek time is computed with: the output_fps asked for, else the
\* frame rate of the source
EffectiveFps(output_fps) == IF output_fps # NoFps THEN output_fps ELSE file.fps

\* ss is passed exactly when k > 0, and is then (k - 0.5) / eff
SeekMatches(ss, k, eff) ==
    IF k > 0
    THEN ss # NoSeek /\ ss[1] * 2 * eff[1] = (2 * k - 1) * eff[2] * ss[2]
    ELSE ss = NoSeek

\* C7: a reader passes a seek time to ffmpeg exactly when start_frame > 0, and the
\* seek time is (start_frame - 0.5) / effectiveFps, effectiveFps being the output
\* frame rate when one is asked for and the probed frame rate of the source otherwise.
C7_SeekTime ==
    /\ rd.ok /\ rd.proc # 0 =>
          SeekMatches(procs[rd.proc].args.ss, rd.start_frame, EffectiveFps(rd.output_fps))
    /\ bulk.fn \in {"videoread", "uint16read"} /\ bulk.proc # 0 =>
          SeekMatches(procs[bulk.proc].args.ss, bulk.start, EffectiveFps(bulk.output_fps))

\* a VideoReader with start_frame = 2 and output_fps = 15 seeks to 3/30 s
C7_Witness ==
    /\ rd.cls = "VideoReader"
    /\ rd.proc # 0
    /\ rd.start_frame = 2
    /\ rd.output_fps = <<15, 1>>
    /\ procs[rd.proc].args.ss = <<3, 30>>

\* C8: once a process is spawned, leaving the with block of a writer, and returning
\* from or raising out of videosave, uint16save, videoread and uint16read, leaves
\* the pipe closed and the process joined.
C8_Released ==
    /\ wr.scope = "left" => procs[wr.proc].closed /\ procs[wr.proc].joined
    /\ bulk.pc \in {"done", "raised"} /\ bulk.proc # 0 =>
          procs[bulk.proc].closed /\ procs[bulk.proc].joined

\* C9: videosave and uint16save raise every configuration and shape error (preset,
\* dtype, channel count, dimensions) before they spawn the process.
C9_ErrorsBeforeSpawn ==
    /\ bulk.fn \in {"videosave", "uint16save"}
    /\ bulk.exc \in {"AssertionError", "IndexError", "NotImplementedError"}
    => bulk.proc = 0

\* C10: a close of a reader in mid-iteration, or of a writer after some writes, whose
\* process has already exited, raises nothing and leaves the pipe closed and the
\* process joined.
C10_CloseToleratesExit ==
    [][ /\ WriterCloseStep /\ written # <<>> /\ ~Running(procs[wr.proc]) =>
            /\ ret'.exc = None
            /\ procs'[wr.proc].closed
            /\ procs'[wr.proc].joined
        /\ ReaderCloseStep /\ rd.proc # 0 /\ ~Running(procs[rd.proc]) =>
            /\ ret'.exc = None
            /\ procs'[rd.proc].closed
            /\ procs'[rd.proc].joined ]_vars

\* a step is a next step of the reader
ReaderNextStep == VideoReaderNext \/ Uint16ReaderNext

\* the last call was a next step that read no bytes and reported the end of the stream
EndSeen == ret.op = "__next__" /\ ret.exc = "StopIteration" /\ ret.bytes = 0

\* C11: once a next step of a reader has read no bytes and raised StopIteration, the
\* next step that follows it on the same iteration (and so, one after the other, every
\* later one until __iter__ or close is called) raises StopIteration again, reads no
\* bytes and yields no frame.
C11_EndIsTerminal ==
    [][ EndSeen /\ ReaderNextStep =>
            /\ ret'.exc = "StopIteration"
            /\ ret'.bytes = 0
            /\ ret'.arg = NoFrame
            /\ yielded' = yielded
            /\ UNCHANGED <<procs, rd>> ]_vars

\* a reader that yielded a frame found the end of its stream twice in a row
C11_Witness == EndSeen /\ ret.again /\ yielded # <<>> /\ rd.proc # 0

\* the options agree with the output frame rate ofps and the caller's flag respect:
\* the fps filter is there exactly when ofps is, vsync='0' is never passed with it,
\* and without it vsync='0' is passed exactly when the flag is off
TimestampMode(args, ofps, respect) ==
    /\ args.fps = ofps
    /\ args.vsync0 = (IF ofps # NoFps THEN FALSE ELSE ~respect)

\* C12: a VideoReader or a videoread call that is given an output frame rate spawns
\* its process with the fps filter and without vsync='0', whatever the caller's
\* respect_original_timestamps flag is; without an output frame rate the process
\* gets vsync='0' exactly when the flag is off.
C12_FpsForcesTimestamps ==
    [][ /\ rd = NoReader /\ rd'.ok =>
              \A start \in StartFrames, ofps \in OutFpsChoices, respect \in BOOLEAN,
                 counts \in BOOLEAN :
                 VideoReaderInit(start, ofps, respect, counts) =>
                     /\ rd'.output_fps = ofps
                     /\ rd'.respect = (IF ofps # NoFps THEN TRUE ELSE respect)
        /\ VideoReaderIter =>
              /\ rd.output_fps # NoFps => rd.respect
              /\ TimestampMode(procs'[rd'.proc].args, rd.output_fps, rd.respect)
        /\ bulk = NoBulk /\ bulk'.pc = "loop" =>
              \A start \in StartFrames, ofps \in OutFpsChoices, respect \in BOOLEAN,
                 counts \in BOOLEAN :
                 VideoreadCall(start, ofps, respect, counts) =>
                     TimestampMode(procs'[bulk'.proc].args, ofps, respect) ]_vars

\* videoread was called with an output frame rate and the flag off, and its process
\* runs with the fps filter and without vsync='0'
C12_Witness ==
    /\ ret.op = "videoread"
    /\ ~ret.respect
    /\ bulk.pc = "loop"
    /\ bulk.output_fps = <<15, 1>>
    /\ procs[bulk.proc].args.fps = <<15, 1>>
    /\ ~procs[bulk.proc].args.vsync0

\* process i has a stdout pipe only, and nothing was ever written to it
ReadSide(i) ==
    /\ procs[i].pipe_stdout
    /\ ~procs[i].pipe_stdin
    /\ procs[i].sent = <<>>
    /\ procs[i].flushed = 0

\* process i has a stdin pipe only, and there is nothing to read from it
WriteSide(i) ==
    /\ procs[i].pipe_stdin
    /\ ~procs[i].pipe_stdout
    /\ procs[i].outq = <<>>

\* C13: in every reachable state the process of a reader or of a bulk read has a
\* stdout pipe and no stdin pipe and was never written to, the process of a writer
\* or of a bulk save has a stdin pipe and no stdout pipe and is never read from, and
\* no process has both pipes.
C13_PipeOwnership ==
    /\ \A i \in 1..Len(procs) :
          /\ ~(procs[i].pipe_stdin /\ procs[i].pipe_stdout)
          /\ procs[i].role = "dec" => ReadSide(i)
          /\ procs[i].role = "enc" => WriteSide(i)
    /\ rd.proc # 0 => ReadSide(rd.proc)
    /\ wr.proc # 0 => WriteSide(wr.proc)
    /\ bulk.proc # 0 =>
          IF bulk.fn \in {"videoread", "uint16read"}
          THEN ReadSide(bulk.proc) ELSE WriteSide(bulk.proc)

\* a reader has read a frame from the stdout of its process, after a writer had
\* written frames to the stdin of its own
C13_Witness ==
    /\ wr.proc # 0
    /\ rd.proc # 0
    /\ wr.proc # rd.proc
    /\ procs[wr.proc].sent # <<>>
    /\ yielded # <<>>
    /\ ret.op = "__next__"
    /\ ret.exc = None

\* the triple the reference gives for a 16-bit sample: b2 = s >> 8, b1 = 0, b0 = s & 0xFF
\* for an even b2 and 255 - (s & 0xFF) for an odd one
ReferenceTriple(s) ==
    LET high == s \div 256
        low == s % 256
    IN  <<IF high % 2 = 0 THEN low ELSE 255 - low, 0, high>>

\* C14: for every 16-bit sample s both Uint16Writer.write and uint16save emit the
\* triple (b0, 0, s >> 8) with b0 = s & 0xFF for an even high byte and 255 - (s & 0xFF)
\* for an odd one, for every 8-bit sample v both emit (v, 0, 0), and the two emit
\* the same triple for the same sample.
C14_EncodeMatchesReference ==
    /\ cstep \in {"enc", "enc_save"} => triple = ReferenceTriple(sample)
    /\ cstep \in {"enc8", "enc8_save"} => triple = <<sample, 0, 0>>
    /\ cstep = "enc_save" => triple = EncodeSample(sample, "uint16")
    /\ cstep = "enc8_save" => triple = EncodeSample(sample, "uint8")

\* uint16save has encoded a sample of odd high byte, whose low byte is reflected
C14_Witness == cstep = "enc_save" /\ sample = 511 /\ triple = <<0, 0, 1>>

\* the samples that share the high byte of s
SameHighByte(s) == { (s \div 256) * 256 + low : low \in 0..255 }

\* C15: for every b0, b2 in 0..255, encoding the sample decoded from (b0, 0, b2) gives
\* (b0, 0, b2) back; and distinct samples encode to distinct triples: the triple of
\* a sample has a zero middle plane, decodes to that sample alone, and no other
\* sample of the same high byte encodes to it.
C15_Bijection ==
    /\ cstep = "raw_enc" => triple = RawTriple(sample)
    /\ cstep = "enc" =>
          /\ triple[2] = 0
          /\ DecodeTriple(triple) = sample
          /\ \A s \in SameHighByte(sample) :
                s # sample => EncodeSample(s, "uint16") # triple

\* the pixel (255, 0, 1) was decoded to the sample 256 and encoded back to (255, 0, 1)
C15_Witness ==
    /\ cstep = "raw_enc"
    /\ sample = 511
    /\ decoded = 256
    /\ triple = <<255, 0, 1>>

\* the distance of two bytes
Distance(a, b) == IF a >= b THEN a - b ELSE b - a

\* C16: for every sample s in 0..65534 the low-byte channel of the triples of s and
\* of s + 1 differs by at most 1, across the 256-boundaries too, and so does the
\* high-byte channel.
C16_ZigZag ==
    cstep = "enc" /\ sample < MaxSample =>
        LET succ == EncodeSample(sample + 1, "uint16")
        IN  /\ Distance(succ[1], triple[1]) <= 1
            /\ Distance(succ[3], triple[3]) <= 1

\* the sample 255 at a 256-boundary is encoded with the low-byte channel 255, as its
\* successor 256 is
C16_Witness ==
    /\ cstep = "enc"
    /\ sample = 255
    /\ triple = <<255, 0, 0>>
    /\ EncodeSample(256, "uint16") = <<255, 0, 1>>

\* the processes the reader has spawned: while there is a reader, every decoder
ReaderProcs == { i \in 1..Len(procs) : rd.cls # None /\ procs[i].role = "dec" }

\* C17: whatever __iter__, __next__ and close calls are made on a reader, at most
\* one of the processes it spawned is unjoined at a time, and once close() has
\* returned every process it ever spawned has its stdout pipe closed and is joined.
C17_NoLeak ==
    /\ Cardinality({ i \in ReaderProcs : ~procs[i].joined }) <= 1
    /\ ret.op = "close" /\ ret.exc = None =>
          \A i \in ReaderProcs : procs[i].closed /\ procs[i].joined

\* a step is a write call on the writer
WriterWriteStep ==
    \/ \E frame \in RgbFrames : VideoWriterWrite(frame)
    \/ \E frame \in DepthFrames : Uint16WriterWrite(frame)

\* the exceptions of the checks of a write: the asserts, the index into a shape that
\* is too short, the unsupported dtype
ValidationErrors == {"AssertionError", "IndexError", "NotImplementedError"}

\* C18: a write call on a VideoWriter or a Uint16Writer that raises from one of its
\* checks passes no byte to the process and leaves the writer, its process, the file
\* and the frames accepted so far as they were, so that the calls that follow find
\* the session they would have found without it.
C18_RejectedWriteAtomic ==
    [][ WriterWriteStep /\ ret'.exc \in ValidationErrors =>
            /\ ret'.bytes = 0
            /\ UNCHANGED <<wr, procs, file, written, rd, bulk, yielded>> ]_vars

\* a write was rejected for its dtype after a frame had been accepted
C18_Witness ==
    /\ ret.op = "write"
    /\ ret.exc = "NotImplementedError"
    /\ ret.bytes = 0
    /\ Len(written) = 1
    /\ procs[wr.proc].sent # <<>>

\* a step is the construction of a reader
ReaderInitStep ==
    \/ \E start \in StartFrames, output_fps \in OutFpsChoices, respect \in BOOLEAN,
          counts \in BOOLEAN : VideoReaderInit(start, output_fps, respect, counts)
    \/ \E start \in StartFrames, counts \in BOOLEAN : Uint16ReaderInit(start, counts)

\* a step is an __iter__ call on the reader
ReaderIterStep == VideoReaderIter \/ Uint16ReaderIter

\* C19: the construction of a reader calls the prober once and spawns no process,
\* and leaves the resolution and the length of the reader available; a reader gets
\* a process only by a step of __iter__; and close() on a reader that was never
\* iterated raises nothing and touches no pipe and no process.
C19_LazySpawn ==
    [][ /\ rd = NoReader /\ rd'.ok /\ ReaderInitStep =>
              /\ procs' = procs
              /\ rd'.proc = 0
              /\ rd'.probes = 1
              /\ rd'.resolution = file.resolution
              /\ ReaderLen(rd') \in 0..Len(file.frames)
        /\ rd.proc = 0 /\ rd'.proc # 0 => ReaderIterStep /\ procs' # procs
        /\ rd'.probes # rd.probes => ReaderInitStep
        /\ ReaderCloseStep /\ rd.iters = 0 =>
              /\ ret'.exc = None
              /\ UNCHANGED <<procs, rd, wr, bulk, file, written, yielded>> ]_vars

\* a reader of a file of two frames was constructed and closed without an __iter__,
\* and no process was ever spawned
C19_Witness ==
    /\ ret.op = "close"
    /\ rd.ok
    /\ rd.iters = 0
    /\ rd.probes = 1
    /\ procs = <<>>
    /\ Len(file.frames) = 2

\* C20: when the constructor of one of the four stream classes raised before it
\* spawned a process, the close() that __del__ runs on the object raises nothing.
C20_FailedCleanupSilent == ret.op = "__del__" => ret.exc = None

\* C21: once close() has closed the pipe of a writer, every later write raises and
\* passes no byte to the process; once close() has closed the pipe of a reader, every
\* later next step raises and yields no frame; a closed pipe is never open again and
\* nothing more goes through it, and the reader gets another process only by __iter__.
C21_NoTransferAfterClose ==
    [][ /\ WriterWriteStep /\ procs[wr.proc].closed =>
              /\ ret'.exc # None
              /\ ret'.bytes = 0
              /\ UNCHANGED <<procs, file, written>>
        /\ ReaderNextStep /\ rd.proc # 0 /\ procs[rd.proc].closed =>
              /\ ret'.exc \notin {None, "StopIteration"}
              /\ ret'.arg = NoFrame
              /\ UNCHANGED <<procs, yielded>>
        /\ \A i \in 1..Len(procs) :
              procs[i].closed =>
                  /\ procs'[i].closed
                  /\ procs'[i].sent = procs[i].sent
                  /\ procs'[i].outq = procs[i].outq
        /\ rd'.proc # rd.proc => ReaderIterStep
        /\ wr'.proc # wr.proc => wr = NoWriter ]_vars

\* a write on a writer that had accepted a frame and was closed raised the ValueError
\* of the closed pipe
C21_Witness ==
    /\ ret.op = "write"
    /\ ret.exc = "ValueError"
    /\ ret.bytes = 0
    /\ written # <<>>
    /\ procs[wr.proc].closed
    /\ procs[wr.proc].joined

\* the frames a reader of the file gets from a decoder run with the options args that
\* neither fails nor is cut short
FullRead(args, depth) ==
    LET decodedFrames == DecodedFrames(file, args)
    IN  [j \in 1..Len(decodedFrames) |->
            IF depth THEN DepthFrameOf(decodedFrames[j], file.resolution)
            ELSE RgbFrameOf(decodedFrames[j], file.resolution)]

\* a step is the finally block and the return of a bulk read
BulkReadFinallyStep == VideoreadFinally \/ Uint16readFinally

\* C22: for a source of at least one frame and the same start_frame, output frame
\* rate and timestamp flag, a VideoReader spawns its process with the options
\* videoread spawns it with, and a Uint16Reader with those of uint16read; a reader
\* iterated to the end of an undisturbed decoder has yielded all the frames the
\* decoder gives for these options, and the bulk read returns these same frames.
C22_BulkMatchesStreaming ==
    [][ /\ VideoReaderIter =>
              procs'[rd'.proc].args =
                  VideoreadArgs(rd.start_frame, rd.video_params, rd.output_fps, rd.respect)
        /\ Uint16ReaderIter =>
              procs'[rd'.proc].args = Uint16readArgs(rd.start_frame, rd.video_params)
        /\ /\ ReaderNextStep
           /\ rd.proc # 0
           /\ ret'.exc = "StopIteration"
           /\ procs[rd.proc].status # "exit1"
           => yielded' = FullRead(procs[rd.proc].args, rd.cls = "Uint16Reader")
        /\ /\ BulkReadFinallyStep
           /\ bulk.exc = None
           /\ procs[bulk.proc].status # "exit1"
           /\ file.frames # <<>>
           => /\ ret'.exc = None
              /\ bulk'.pc = "done"
              /\ yielded = FullRead(procs[bulk.proc].args, bulk.fn = "uint16read") ]_vars

\* r degrees is an odd multiple of 90 degrees, negative ones included
OddQuarterTurn(r) == \E k \in (0 - 4)..4 : r = 90 * (2 * k + 1)

\* C23: read_video_params returns the width and the height of the stream exchanged
\* exactly when the stream reports a rotation that is an odd multiple of 90 degrees,
\* a negative one too, and returns them as probed for every other rotation and
\* when no rotation is reported.
C23_RotationSwap ==
    probed # <<>> =>
        LET swap == stream_params.hasRotate /\ OddQuarterTurn(stream_params.rotate)
        IN  /\ probed[1].width = (IF swap THEN stream_params.height ELSE stream_params.width)
            /\ probed[1].height = (IF swap THEN stream_params.width ELSE stream_params.height)

\* a 3x1 stream rotated by -90 degrees was reported as 1x3
C23_Witness ==
    /\ probed # <<>>
    /\ stream_params.hasRotate
    /\ stream_params.rotate = 0 - 90
    /\ stream_params.width = 3
    /\ stream_params.height = 1
    /\ probed[1].width = 1
    /\ probed[1].height = 3

====
